---- MODULE Spec2Model ----
(***************************************************************************)
(* Lexinel AML agent: the LangGraph pipeline of backend/agent (state.py,   *)
(* nodes.py, graph.py).  One request is driven from safety_guard to END.   *)
(*                                                                         *)
(* Representation                                                          *)
(*   text that the code inspects (message)   : tuple of 1-character strings*)
(*   text that the code only passes around   : [id, len] records           *)
(*   risk_score (float)                      : integer hundredths          *)
(*   amounts (float)                         : integer cents               *)
(*   Python values of unknown type           : records tagged by field t   *)
(*   timestamps (_ts())                      : left out of the log entries *)
(***************************************************************************)
EXTENDS Integers, Sequences, FiniteSets, TLC

VARIABLES
    request,    \* the arguments run_agent was called with
    state,      \* the LexinelState of the request (channel values)
    pc,         \* node to run next; "END" after a terminal node; "RAISED"
                \* when a node raised and ainvoke propagated the exception
    trace,      \* nodes that returned, in execution order
    prevLog,    \* step_log before the node that returned last
    delivery,   \* what the webhook POST of siem_notifier did ("none" before)
    raisedIn,   \* the node whose exception left the graph ("none" otherwise)
    scan,       \* the sentinel scanner: an evaluate_rule call (SpecEval) or a
                \* scan_stream run (SpecScan); empty otherwise
    cancelRequested, \* the caller cancelled the run_agent task (SpecCancel)
    runs,       \* the requests in flight at once: one record per run_agent
                \* call (used by SpecTwo; empty under Spec)
    calls       \* what the collaborators did, one [node, out] per node that
                \* called one, in call order

vars == <<request, state, pc, trace, prevLog, delivery, raisedIn, calls, runs,
          cancelRequested, scan>>

-----------------------------------------------------------------------------
(* Python str operations on tuples of characters *)

UpperAlpha == <<"A","B","C","D","E","F","G","H","I","J","K","L","M",
                "N","O","P","Q","R","S","T","U","V","W","X","Y","Z">>

LowerAlpha == <<"a","b","c","d","e","f","g","h","i","j","k","l","m",
                "n","o","p","q","r","s","t","u","v","w","x","y","z">>

LowerChar(c) ==
    IF \E i \in DOMAIN UpperAlpha : UpperAlpha[i] = c
    THEN LowerAlpha[CHOOSE i \in DOMAIN UpperAlpha : UpperAlpha[i] = c]
    ELSE c

\* str.lower()
Lower(s) == [i \in 1..Len(s) |-> LowerChar(s[i])]

\* sub in s
Contains(s, sub) ==
    \E i \in 0..(Len(s) - Len(sub)) : SubSeq(s, i + 1, i + Len(sub)) = sub

Min(a, b) == IF a <= b THEN a ELSE b

\* text[:n] on a text that is only passed around
Take(text, n) == [text EXCEPT !.len = Min(text.len, n)]

EmptyText == [id |-> "", len |-> 0]

-----------------------------------------------------------------------------
(* Inputs of run_agent *)

MsgHello       == <<"h","e","l","l","o">>
MsgStructuring == <<"s","t","r","u","c","t","u","r","i","n","g">>
MsgSmurfing    == <<"m","y"," ","s","m","u","r","f","i","n","g">>
MsgSPLIT       == <<"S","P","L","I","T"," ","i","t">>
MsgRedacted    == <<"[","x","]">>

Messages == {MsgHello, MsgStructuring, MsgSmurfing, MsgSPLIT}

AgentIds == {"sentinel-chat", "sar-pipeline"}

\* amounts in cents
Cents(units, hundredths) == units * 100 + hundredths

\* Python values whose type the code does not control
Num(n) == [t |-> "num", v |-> n]
\* a str: numeric says whether float() accepts it, v is the float it makes
NumStr(n) == [t |-> "str", numeric |-> TRUE, v |-> n]
BadStr    == [t |-> "str", numeric |-> FALSE, v |-> 0]
PyNone    == [t |-> "None"]

\* transaction: None or a dict (a set of key/value pairs, one per key)
NoTransaction == [t |-> "None", items |-> {}]
Dict(items)   == [t |-> "dict", items |-> items]
Item(k, v)    == [key |-> k, val |-> v]

Keys(d) == {i.key : i \in d.items}

\* dict.get(k, default)
Get(d, k, default) ==
    IF k \in Keys(d) THEN (CHOOSE i \in d.items : i.key = k).val ELSE default

Transactions ==
    { NoTransaction,
      Dict({}),
      Dict({Item("amount", Num(Cents(15000, 0)))}),
      Dict({Item("amount", Num(Cents(10000, 0)))}),
      Dict({Item("amount", Num(Cents(9999, 99)))}),
      Dict({Item("TRAN_AMT", Num(Cents(15000, 0)))}),
      Dict({Item("TRAN_AMT", Num(Cents(500, 0))),
            Item("amount", Num(Cents(15000, 0)))}),
      Dict({Item("amount", NumStr(Cents(15000, 0)))}),
      Dict({Item("amount", BadStr)}),
      Dict({Item("amount", PyNone)}) }

-----------------------------------------------------------------------------
(* state.py: the channels and their reducers *)

\* Annotated[..., operator.add]
AppendKeys == {"violations", "step_log"}

\* mutant: the reducers are lost, every channel is overwritten
Merge_Overwrite(st, upd) ==
    [k \in DOMAIN st |-> IF k \in DOMAIN upd THEN upd[k] ELSE st[k]]

\* what LangGraph does with the dict a node returns
Merge(st, upd) ==
    [k \in DOMAIN st |->
        IF k \in DOMAIN upd
        THEN IF k \in AppendKeys THEN st[k] \o upd[k] ELSE upd[k]
        ELSE st[k]]

\* answer: which f-string or literal built it, and the text put into it
Answer(kind, text) == [kind |-> kind, text |-> text]

LogEntry(tag, detail) == [tag |-> tag, detail |-> detail]

\* mutant: step_log starts empty, without the START entry
InitialState_EmptyLog(message, agent_id, transaction) ==
    [ message         |-> message,
      agent_id        |-> agent_id,
      transaction     |-> transaction,
      is_blocked      |-> FALSE,
      block_reason    |-> "",
      policy_context  |-> <<>>,
      risk_score      |-> 0,
      risk_reasons    |-> <<>>,
      risk_label      |-> "LOW",
      violations      |-> <<>>,
      violation_found |-> FALSE,
      sar_narrative   |-> [id |-> "", len |-> 0],
      sar_filing_id   |-> "",
      siem_notified   |-> FALSE,
      answer          |-> [kind |-> "", text |-> [id |-> "", len |-> 0]],
      citations       |-> {},
      step_log        |-> <<>> ]

\* run_agent: initial_state
InitialState(message, agent_id, transaction) ==
    [ message         |-> message,
      agent_id        |-> agent_id,
      transaction     |-> transaction,
      is_blocked      |-> FALSE,
      block_reason    |-> "",
      policy_context  |-> <<>>,
      risk_score      |-> 0,
      risk_reasons    |-> <<>>,
      risk_label      |-> "LOW",
      violations      |-> <<>>,
      violation_found |-> FALSE,
      sar_narrative   |-> EmptyText,
      sar_filing_id   |-> "",
      siem_notified   |-> FALSE,
      answer          |-> Answer("", EmptyText),
      citations       |-> {},
      step_log        |-> <<LogEntry("START", agent_id)>> ]

-----------------------------------------------------------------------------
(* What a node hands back to the graph *)

Returned(upd) == [raised |-> FALSE, update |-> upd]
Raised(exc)   == [raised |-> TRUE, exc |-> exc]

PyBool(b) == IF b THEN "True" ELSE "False"

-----------------------------------------------------------------------------
(* NODE 1: safety_guard.  policy_engine.evaluate_prompt is a collaborator: *)
(* it raises, or returns (is_blocked, processed, metadata).                *)

PolicyResult(is_blocked, processed, metadata) ==
    [ raised |-> FALSE, is_blocked |-> is_blocked, processed |-> processed,
      metadata |-> metadata ]

PolicyOutcomes(message) ==
    { [raised |-> TRUE],
      PolicyResult(FALSE, message, Dict({})),
      PolicyResult(FALSE, MsgRedacted, Dict({Item("reason", "PII redacted")})),
      PolicyResult(TRUE, message, Dict({Item("reason", "Policy violation")})),
      PolicyResult(TRUE, MsgRedacted, Dict({})) }

\* mutant: the except branch blocks the request
safety_guard_node_FailClosed(st, out) ==
    IF out.raised
    THEN Returned([ is_blocked   |-> TRUE,
                    block_reason |-> "",
                    step_log     |-> <<LogEntry("SAFETY_GUARD_ERROR", "e")>> ])
    ELSE Returned([ is_blocked   |-> out.is_blocked,
                    block_reason |-> Get(out.metadata, "reason", ""),
                    message      |-> out.processed,
                    step_log     |-> <<LogEntry("SAFETY_GUARD",
                                         PyBool(out.is_blocked))>> ])

safety_guard_node(st, out) ==
    IF out.raised
    THEN Returned([ is_blocked   |-> FALSE,
                    block_reason |-> "",
                    step_log     |-> <<LogEntry("SAFETY_GUARD_ERROR", "e")>> ])
    ELSE Returned([ is_blocked   |-> out.is_blocked,
                    block_reason |-> Get(out.metadata, "reason", ""),
                    message      |-> out.processed,
                    step_log     |-> <<LogEntry("SAFETY_GUARD",
                                         PyBool(out.is_blocked))>> ])

-----------------------------------------------------------------------------
(* NODE 2: policy_rag.  create_embedding and search_relevant_policies are  *)
(* collaborators; a chunk is a dict that may lack either key.              *)

Chunk(text, name) == Dict({Item("chunk_text", text), Item("policy_name", name)})
ChunkNoName(text) == Dict({Item("chunk_text", text)})
ChunkNoText(name) == Dict({Item("policy_name", name)})

SearchResults ==
    { <<>>,
      <<Chunk("p1", "BSA"), Chunk("p2", "BSA"), ChunkNoName("p3"),
        Chunk("p4", "FATF")>>,
      <<Chunk("p1", "BSA"), ChunkNoText("BSA")>> }

RagOutcomes ==
    {[raised |-> TRUE]} \cup [raised : {FALSE}, chunks : SearchResults]

policy_rag_node(st, out) ==
    IF out.raised \/ \E i \in DOMAIN out.chunks :
                        "chunk_text" \notin Keys(out.chunks[i])
    THEN Returned([ policy_context |-> <<>>,
                    citations      |-> {"Lexinel Rulebook"},
                    step_log       |-> <<LogEntry("POLICY_RAG_ERROR", "e")>> ])
    ELSE LET context == [i \in DOMAIN out.chunks |->
                            Get(out.chunks[i], "chunk_text", "")]
             citations == {Get(out.chunks[i], "policy_name", "Policy Document") :
                            i \in DOMAIN out.chunks}
         IN  Returned([ policy_context |-> context,
                        citations      |-> citations,
                        step_log       |-> <<LogEntry("POLICY_RAG",
                                               ToString(Len(context)))>> ])

-----------------------------------------------------------------------------
(* NODE 3: risk_assessor.  gemini.chat_compliance raises or returns a text,*)
(* modelled as a tuple of tokens: a code fence (three back quotes), a *)
(* word, white space, or a                                                 *)
(* complete JSON document.                                                 *)

Fence     == [t |-> "fence"]
Word(w)   == [t |-> "word", w |-> w]
Ws        == [t |-> "ws"]
JsonObject(items) == [t |-> "json", doc |-> Dict(items)]
JsonArray         == [t |-> "json", doc |-> [t |-> "list", items |-> {}]]

RECURSIVE LStrip(_)
LStrip(s) == IF s # <<>> /\ Head(s) = Ws THEN LStrip(Tail(s)) ELSE s

RECURSIVE RStrip(_)
RStrip(s) ==
    IF s # <<>> /\ s[Len(s)] = Ws THEN RStrip(SubSeq(s, 1, Len(s) - 1)) ELSE s

\* str.strip()
Strip(s) == RStrip(LStrip(s))

\* str.removeprefix(p)
RemovePrefix(s, p) ==
    IF Len(s) >= Len(p) /\ SubSeq(s, 1, Len(p)) = p
    THEN SubSeq(s, Len(p) + 1, Len(s)) ELSE s

\* str.removesuffix(p)
RemoveSuffix(s, p) ==
    IF Len(s) >= Len(p) /\ SubSeq(s, Len(s) - Len(p) + 1, Len(s)) = p
    THEN SubSeq(s, 1, Len(s) - Len(p)) ELSE s

\* raw.strip().removeprefix(FENCE "json").removeprefix(FENCE).removesuffix(FENCE).strip()
Cleaned(raw) ==
    Strip(RemoveSuffix(
            RemovePrefix(RemovePrefix(Strip(raw), <<Fence, Word("json")>>),
                         <<Fence>>),
            <<Fence>>))

\* json.loads: one document, white space around it allowed
JsonLoads(text) ==
    LET body == Strip(text)
    IN  IF Len(body) = 1 /\ body[1].t = "json"
        THEN [raised |-> FALSE, value |-> body[1].doc]
        ELSE [raised |-> TRUE, value |-> PyNone]

\* float(x)
Float(x) ==
    CASE x.t = "num" -> [raised |-> FALSE, v |-> x.v]
      [] x.t = "str" -> [raised |-> ~x.numeric, v |-> x.v]
      [] OTHER       -> [raised |-> TRUE, v |-> 0]

RiskObject(score, label) ==
    JsonObject({Item("risk_score", score), Item("risk_label", label),
                Item("risk_reasons", <<"r1", "r2">>)})

RiskDocs ==
    { RiskObject(Num(75), "HIGH"),
      RiskObject(Num(74), "MEDIUM"),
      RiskObject(Num(50), "MEDIUM"),
      RiskObject(Num(49), "LOW"),
      RiskObject(Num(150), "CRITICAL"),
      RiskObject(Num(-20), "LOW"),
      RiskObject(Num(90), "SEVERE"),
      RiskObject(Num(80), "None"),
      RiskObject(NumStr(90), "HIGH"),
      RiskObject(BadStr, "HIGH"),
      RiskObject(PyNone, "HIGH"),
      JsonObject({Item("risk_label", "HIGH"), Item("risk_reasons", <<"r1">>)}),
      JsonObject({Item("risk_score", Num(80))}),
      JsonObject({}),
      JsonArray }

RiskTexts ==
    { <<d>> : d \in RiskDocs } \cup
    { <<Fence, Word("json"), Ws, RiskObject(Num(90), "HIGH"), Ws, Fence>>,
      <<Ws, Fence, Ws, RiskObject(Num(75), "HIGH"), Ws, Fence, Ws>>,
      <<Fence, Word("python"), Ws, RiskObject(Num(90), "HIGH"), Ws, Fence>>,
      <<Word("Sure"), Ws, RiskObject(Num(90), "HIGH")>>,
      <<>> }

RiskOutcomes == {[raised |-> TRUE]} \cup [raised : {FALSE}, raw : RiskTexts]

\* mutant: the fallback score reaches the routing threshold
RiskFallback_AtThreshold ==
    Returned([ risk_score   |-> 50,
               risk_label   |-> "LOW",
               risk_reasons |-> <<"Risk assessment error">>,
               step_log     |-> <<LogEntry("RISK_ASSESSOR_ERROR", "e")>> ])

RiskFallback ==
    Returned([ risk_score   |-> 10,
               risk_label   |-> "LOW",
               risk_reasons |-> <<"Risk assessment error">>,
               step_log     |-> <<LogEntry("RISK_ASSESSOR_ERROR", "e")>> ])

\* risk_assessor_node with a strict reading of the reply: an object that lacks
\* one of its three keys is treated as a failure
risk_assessor_node_Strict(st, out) ==
    IF out.raised THEN RiskFallback
    ELSE LET loaded == JsonLoads(Cleaned(out.raw))
             result == loaded.value
         IN  IF loaded.raised \/ result.t # "dict" THEN RiskFallback
             ELSE IF Keys(result) # {"risk_score", "risk_label", "risk_reasons"}
             THEN RiskFallback
             ELSE LET score == Float(Get(result, "risk_score", Num(0)))
                  IN  IF score.raised THEN RiskFallback
                      ELSE Returned([ risk_score   |-> score.v,
                                      risk_label   |-> Get(result, "risk_label", "LOW"),
                                      risk_reasons |-> Get(result, "risk_reasons", <<>>),
                                      step_log     |-> <<LogEntry("RISK_ASSESSOR",
                                                          ToString(score.v))>> ])

risk_assessor_node(st, out) ==
    IF out.raised THEN RiskFallback
    ELSE LET loaded == JsonLoads(Cleaned(out.raw))
             result == loaded.value
         IN  IF loaded.raised \/ result.t # "dict" THEN RiskFallback
             ELSE LET score   == Float(Get(result, "risk_score", Num(0)))
                      label   == Get(result, "risk_label", "LOW")
                      reasons == Get(result, "risk_reasons", <<>>)
                  IN  IF score.raised THEN RiskFallback
                      ELSE Returned([ risk_score   |-> score.v,
                                      risk_label   |-> label,
                                      risk_reasons |-> reasons,
                                      step_log     |-> <<LogEntry("RISK_ASSESSOR",
                                                          ToString(score.v))>> ])

-----------------------------------------------------------------------------
(* NODE 4: violation_checker.  No collaborator; the float() of line 152 is *)
(* outside any try, so its exception leaves the node.                      *)

CTR_THRESHOLD == 10000

SEMANTIC_THRESHOLD == 75

StemStructur == <<"s","t","r","u","c","t","u","r">>
StemSmurf    == <<"s","m","u","r","f">>
StemSplit    == <<"s","p","l","i","t">>

\* state.get("transaction") or {}
TxOrEmpty(st) ==
    IF st.transaction.t = "None" \/ st.transaction.items = {}
    THEN Dict({}) ELSE st.transaction

\* float(tx.get("TRAN_AMT", tx.get("amount", 0)))
TxAmount(tx) == Float(Get(tx, "TRAN_AMT", Get(tx, "amount", Num(0))))

\* mutant: > for >=
CtrRule_Strict(amount) == amount > Cents(CTR_THRESHOLD, 0)

\* AML-R01: amount >= 10_000
CtrRule(amount) == amount >= Cents(CTR_THRESHOLD, 0)

\* mutant: the "structur" stem is not looked for
StructuringRule_NoStructur(message) ==
    LET msg_lower == Lower(message)
    IN  Contains(msg_lower, StemSmurf) \/ Contains(msg_lower, StemSplit)

\* AML-R02: "structur" in msg_lower or "smurf" in msg_lower or "split" in msg_lower
StructuringRule(message) ==
    LET msg_lower == Lower(message)
    IN  \/ Contains(msg_lower, StemStructur)
        \/ Contains(msg_lower, StemSmurf)
        \/ Contains(msg_lower, StemSplit)

\* mutant: "and not violations" is dropped
SemanticRule_Unconditional(st, violations) ==
    st.risk_score >= SEMANTIC_THRESHOLD

\* AML-R03: state["risk_score"] >= 0.75 and not violations
SemanticRule(st, violations) ==
    st.risk_score >= SEMANTIC_THRESHOLD /\ violations = <<>>

ViolationR01(amount) ==
    [ rule_id   |-> "AML-R01",
      rule_name |-> "CTR Threshold Breach",
      severity  |-> "HIGH",
      amount    |-> amount,
      action    |-> "FLAG_FOR_CTR",
      framework |-> "BSA 1010.310" ]

ViolationR02 ==
    [ rule_id   |-> "AML-R02",
      rule_name |-> "Structuring Pattern Detected",
      severity  |-> "CRITICAL",
      action    |-> "AUTO_SAR",
      framework |-> "BSA 1010.314" ]

ViolationR03(st) ==
    [ rule_id    |-> "AML-R03",
      rule_name  |-> "Semantic Risk Threshold Breach",
      severity   |-> st.risk_label,
      risk_score |-> st.risk_score,
      action     |-> "REVIEW_QUEUE",
      framework  |-> "FATF Recommendation 20" ]

\* the violations list after the three ifs
CheckRules(st, amount) ==
    LET v1 == IF CtrRule(amount) THEN <<ViolationR01(amount)>> ELSE <<>>
        v2 == IF StructuringRule(st.message) THEN Append(v1, ViolationR02)
              ELSE v1
        v3 == IF SemanticRule(st, v2) THEN Append(v2, ViolationR03(st)) ELSE v2
    IN  v3

\* mutant: > 1 for > 0
ViolationFound_MoreThanOne(violations) == Len(violations) > 1

\* "violation_found": len(violations) > 0
ViolationFound(violations) == Len(violations) > 0

violation_checker_node(st) ==
    LET amount == TxAmount(TxOrEmpty(st))
    IN  IF amount.raised THEN Raised("float")
        ELSE LET violations == CheckRules(st, amount.v)
             IN  Returned([ violations      |-> violations,
                            violation_found |-> ViolationFound(violations),
                            step_log        |-> <<LogEntry("VIOLATION_CHECKER",
                                                    ToString(Len(violations)))>> ])

-----------------------------------------------------------------------------
(* NODE 5: sar_drafter.  gemini.chat_compliance raises or returns the      *)
(* narrative.                                                              *)

PREVIEW_LEN == 200

Narratives == {[id |-> "narrative-short", len |-> 120],
               [id |-> "narrative-long", len |-> 450]}

TextOutcomes(texts) ==
    {[raised |-> TRUE, text |-> EmptyText]} \cup [raised : {FALSE}, text : texts]

\* mutant: the node hands the violations it read back to the graph
sar_drafter_node_ReturnsViolations(st, out) ==
    IF out.raised
    THEN Returned([ sar_narrative |-> [id |-> "SAR generation failed", len |-> 47],
                    answer        |-> Answer("sar_failed", EmptyText),
                    violations    |-> st.violations,
                    step_log      |-> <<LogEntry("SAR_DRAFTER_ERROR", "e")>> ])
    ELSE Returned([ sar_narrative |-> out.text,
                    answer        |-> Answer("sar_preview",
                                             Take(out.text, PREVIEW_LEN)),
                    violations    |-> st.violations,
                    step_log      |-> <<LogEntry("SAR_DRAFTER", "generated")>> ])

sar_drafter_node(st, out) ==
    IF out.raised
    THEN Returned([ sar_narrative |-> [id |-> "SAR generation failed", len |-> 47],
                    answer        |-> Answer("sar_failed", EmptyText),
                    step_log      |-> <<LogEntry("SAR_DRAFTER_ERROR", "e")>> ])
    ELSE Returned([ sar_narrative |-> out.text,
                    answer        |-> Answer("sar_preview",
                                             Take(out.text, PREVIEW_LEN)),
                    step_log      |-> <<LogEntry("SAR_DRAFTER", "generated")>> ])

-----------------------------------------------------------------------------
(* NODE 6: siem_notifier.  client.post(..., timeout=3.0) raises (timeout,  *)
(* transport error) or returns a response with a status code.              *)

HTTP_OK == 200

WebhookOutcomes ==
    { [raised |-> TRUE, exc |-> "timeout", status |-> 0],
      [raised |-> FALSE, exc |-> "", status |-> 200],
      [raised |-> FALSE, exc |-> "", status |-> 204],
      [raised |-> FALSE, exc |-> "", status |-> 500] }

\* mutant: any response counts as delivered
Notified_AnyResponse(out) == ~out.raised

\* notified = res.status_code == 200; False in the except branch
Notified(out) == ~out.raised /\ out.status = HTTP_OK

siem_notifier_node(st, out) ==
    LET notified == Notified(out)
    IN  Returned([ siem_notified |-> notified,
                   step_log      |-> <<LogEntry("SIEM_NOTIFIER",
                                         PyBool(notified))>> ])

-----------------------------------------------------------------------------
(* NODE 7: compliance_responder, NODE 8: blocked_responder                 *)

Answers == {[id |-> "llm-answer", len |-> 80]}

\* mutant: the except branch hands the exception text to the user
compliance_responder_node_RawError(st, out) ==
    IF out.raised
    THEN Returned([ answer   |-> Answer("llm", [id |-> "e", len |-> 1]),
                    step_log |-> <<LogEntry("COMPLIANCE_RESPONDER_ERROR", "e")>> ])
    ELSE Returned([ answer   |-> Answer("llm", out.text),
                    step_log |-> <<LogEntry("COMPLIANCE_RESPONDER",
                                    "generated")>> ])

compliance_responder_node(st, out) ==
    IF out.raised
    THEN Returned([ answer   |-> Answer("unable", EmptyText),
                    step_log |-> <<LogEntry("COMPLIANCE_RESPONDER_ERROR", "e")>> ])
    ELSE Returned([ answer   |-> Answer("llm", out.text),
                    step_log |-> <<LogEntry("COMPLIANCE_RESPONDER",
                                    "generated")>> ])

blocked_responder_node(st) ==
    Returned([ answer    |-> Answer("blocked", [id |-> st.block_reason, len |-> 0]),
               citations |-> {"PolicyGuard Governance Engine"},
               step_log  |-> <<LogEntry("BLOCKED", st.block_reason)>> ])

-----------------------------------------------------------------------------
(* graph.py: routers, edges, run_agent *)

ROUTE_THRESHOLD == 50

\* mutant: the two branches are swapped
route_after_safety_Swapped(st) ==
    IF st.is_blocked THEN "policy_rag" ELSE "blocked_responder"

\* mutant: the router names a node that was never registered
route_after_safety_Unregistered(st) ==
    IF st.is_blocked THEN "blocked" ELSE "policy_rag"

\* mutant: a blocked request goes on like any other
route_after_safety_NeverBlocks(st) == "policy_rag"

route_after_safety(st) ==
    IF st.is_blocked THEN "blocked_responder" ELSE "policy_rag"

\* mutant: > for >=
route_after_risk_Strict(st) ==
    IF st.risk_score > ROUTE_THRESHOLD
    THEN "violation_checker" ELSE "compliance_responder"

\* mutant: the two branches are swapped
route_after_risk_Swapped(st) ==
    IF st.risk_score >= ROUTE_THRESHOLD
    THEN "compliance_responder" ELSE "violation_checker"

route_after_risk(st) ==
    IF st.risk_score >= ROUTE_THRESHOLD
    THEN "violation_checker" ELSE "compliance_responder"

\* mutant: no violation sends the request back to risk_assessor
route_after_violation_LoopBack(st) ==
    IF st.violation_found THEN "sar_drafter" ELSE "risk_assessor"

\* mutant: the report branch is taken whatever the checker found
route_after_violation_AlwaysReport(st) == "sar_drafter"

route_after_violation(st) ==
    IF st.violation_found THEN "sar_drafter" ELSE "compliance_responder"

Nodes == { "safety_guard", "policy_rag", "risk_assessor", "violation_checker",
           "sar_drafter", "siem_notifier", "compliance_responder",
           "blocked_responder" }

\* graph.add_edge(START, "safety_guard")
EntryNode == "safety_guard"

\* build_lexinel_graph: the node that runs after `node` returned into st
NextNode(node, st) ==
    CASE node = "safety_guard"         -> route_after_safety(st)
      [] node = "policy_rag"           -> "risk_assessor"
      [] node = "risk_assessor"        -> route_after_risk(st)
      [] node = "violation_checker"    -> route_after_violation(st)
      [] node = "sar_drafter"          -> "siem_notifier"
      [] node = "siem_notifier"        -> "END"
      [] node = "compliance_responder" -> "END"
      [] node = "blocked_responder"    -> "END"

Requests ==
    [message : Messages, agent_id : AgentIds, transaction : Transactions]

\* run_agent up to the first node: the initial state enters the graph
Init ==
    /\ request \in Requests
    /\ state = InitialState(request.message, request.agent_id,
                            request.transaction)
    /\ pc = EntryNode
    /\ trace = <<>>
    /\ prevLog = <<>>
    /\ delivery = "none"
    /\ raisedIn = "none"
    /\ calls = <<>>
    /\ runs = <<>>
    /\ cancelRequested = FALSE
    /\ scan = <<>>

\* the collaborator of `node` answered with out
Call(node, out) == [node |-> node, out |-> out]

\* lexinel_agent.ainvoke: one node runs; its dict is merged and the next node
\* chosen, or its exception leaves ainvoke and run_agent
Step(node, res) ==
    /\ pc = node
    /\ IF res.raised
       THEN /\ pc' = "RAISED"
            /\ raisedIn' = node
            /\ UNCHANGED <<state, trace, prevLog>>
       ELSE LET merged == Merge(state, res.update)
            IN  /\ state' = merged
                /\ pc' = NextNode(node, merged)
                /\ trace' = Append(trace, node)
                /\ prevLog' = state.step_log
                /\ UNCHANGED raisedIn
    /\ UNCHANGED <<request, runs, cancelRequested, scan>>

SafetyGuard ==
    /\ \E out \in PolicyOutcomes(state.message) :
          /\ Step("safety_guard", safety_guard_node(state, out))
          /\ calls' = Append(calls, Call("safety_guard", out))
    /\ UNCHANGED delivery

PolicyRag ==
    /\ \E out \in RagOutcomes :
          /\ Step("policy_rag", policy_rag_node(state, out))
          /\ calls' = Append(calls, Call("policy_rag", out))
    /\ UNCHANGED delivery

RiskAssessor ==
    /\ \E out \in RiskOutcomes :
          /\ Step("risk_assessor", risk_assessor_node(state, out))
          /\ calls' = Append(calls, Call("risk_assessor", out))
    /\ UNCHANGED delivery

ViolationChecker ==
    /\ Step("violation_checker", violation_checker_node(state))
    /\ UNCHANGED <<delivery, calls>>

SarDrafter ==
    /\ \E out \in TextOutcomes(Narratives) :
          /\ Step("sar_drafter", sar_drafter_node(state, out))
          /\ calls' = Append(calls, Call("sar_drafter", out))
    /\ UNCHANGED delivery

SiemNotifier ==
    \E out \in WebhookOutcomes :
        /\ Step("siem_notifier", siem_notifier_node(state, out))
        /\ delivery' = IF out.raised THEN out.exc ELSE ToString(out.status)
        /\ calls' = Append(calls, Call("siem_notifier", out))

ComplianceResponder ==
    /\ \E out \in TextOutcomes(Answers) :
          /\ Step("compliance_responder", compliance_responder_node(state, out))
          /\ calls' = Append(calls, Call("compliance_responder", out))
    /\ UNCHANGED delivery

BlockedResponder ==
    /\ Step("blocked_responder", blocked_responder_node(state))
    /\ UNCHANGED <<delivery, calls>>

Next ==
    \/ SafetyGuard
    \/ PolicyRag
    \/ RiskAssessor
    \/ ViolationChecker
    \/ SarDrafter
    \/ SiemNotifier
    \/ ComplianceResponder
    \/ BlockedResponder

Spec == Init /\ [][Next]_vars

TypeOK ==
    /\ pc \in Nodes \cup {"END", "RAISED"}
    /\ request \in Requests
    /\ state.is_blocked \in BOOLEAN
    /\ state.violation_found \in BOOLEAN
    /\ state.siem_notified \in BOOLEAN
    /\ state.risk_score \in Int
    /\ raisedIn \in Nodes \cup {"none"}

-----------------------------------------------------------------------------
(* Vocabulary of the properties *)

Range(seq) == {seq[i] : i \in DOMAIN seq}

Last(seq) == seq[Len(seq)]

Ran(node) == node \in Range(trace)

\* the nodes the graph has started: those that returned, then the one that
\* is due or that raised
Started ==
    trace \o (IF pc = "RAISED" THEN <<raisedIn>>
              ELSE IF pc \in Nodes THEN <<pc>> ELSE <<>>)

Finished == pc = "END"

TerminalNodes == {"siem_notifier", "compliance_responder", "blocked_responder"}

HasRule(violations, id) == \E i \in DOMAIN violations : violations[i].rule_id = id

RuleIndex(violations, id) ==
    CHOOSE i \in DOMAIN violations : violations[i].rule_id = id

\* the amount of a transaction record: TRAN_AMT when the record has it,
\* otherwise amount, otherwise 0; a numeric string counts as its number
AmountIsNumeric(tx) ==
    LET x == Get(tx, "TRAN_AMT", Get(tx, "amount", Num(0)))
    IN  x.t = "num" \/ (x.t = "str" /\ x.numeric)

AmountOf(tx) == Get(tx, "TRAN_AMT", Get(tx, "amount", Num(0))).v

Smurfing == <<"s","m","u","r","f","i","n","g">>

Structuring == <<"s","t","r","u","c","t","u","r","i","n","g">>

IsStrictPrefix(a, b) == Len(a) < Len(b) /\ SubSeq(b, 1, Len(a)) = a

\* the node that writes a log entry with this tag
NodeOfTag(tag) ==
    CASE tag \in {"SAFETY_GUARD", "SAFETY_GUARD_ERROR"} -> "safety_guard"
      [] tag \in {"POLICY_RAG", "POLICY_RAG_ERROR"} -> "policy_rag"
      [] tag \in {"RISK_ASSESSOR", "RISK_ASSESSOR_ERROR"} -> "risk_assessor"
      [] tag = "VIOLATION_CHECKER" -> "violation_checker"
      [] tag \in {"SAR_DRAFTER", "SAR_DRAFTER_ERROR"} -> "sar_drafter"
      [] tag \in {"SIEM_NOTIFIER", "SIEM_NOTIFIER_ERROR"} -> "siem_notifier"
      [] tag \in {"COMPLIANCE_RESPONDER", "COMPLIANCE_RESPONDER_ERROR"}
            -> "compliance_responder"
      [] tag = "BLOCKED" -> "blocked_responder"
      [] OTHER -> "none"

-----------------------------------------------------------------------------
(* C1: for every request and every combination of collaborator failures no *)
(* node raises to the graph: the run never ends in an exception, and when  *)
(* it ends, the last node was one of the three terminal nodes.             *)
C1_NoStageRaises ==
    /\ pc # "RAISED"
    /\ Finished => Last(trace) \in TerminalNodes

(* C2: the nodes run along the fixed edges and the three routers only:     *)
(* safety_guard first; then blocked_responder if is_blocked else           *)
(* policy_rag; policy_rag then risk_assessor; then violation_checker if    *)
(* risk_score >= 0.5 else compliance_responder; after violation_checker    *)
(* sar_drafter if violation_found else compliance_responder; sar_drafter   *)
(* then siem_notifier; nothing after a terminal node.  (is_blocked,        *)
(* risk_score and violation_found are written by one node each, so their   *)
(* current value is the one the router read.)                              *)
C2_RoutingFollowsGraph ==
    /\ Started # <<>> => Started[1] = "safety_guard"
    /\ \A i \in DOMAIN Started :
          LET node == Started[i]
              hasNext == i < Len(Started)
              succ == Started[Min(i + 1, Len(Started))]
          IN  /\ node \in TerminalNodes => ~hasNext
              /\ hasNext =>
                   CASE node = "safety_guard" ->
                            succ = IF state.is_blocked THEN "blocked_responder"
                                   ELSE "policy_rag"
                     [] node = "policy_rag" -> succ = "risk_assessor"
                     [] node = "risk_assessor" ->
                            succ = IF state.risk_score >= 50
                                   THEN "violation_checker"
                                   ELSE "compliance_responder"
                     [] node = "violation_checker" ->
                            succ = IF state.violation_found THEN "sar_drafter"
                                   ELSE "compliance_responder"
                     [] node = "sar_drafter" -> succ = "siem_notifier"
                     [] OTHER -> FALSE
    /\ (Finished => Last(trace) \in TerminalNodes)

C2_Witness ==
    /\ Finished
    /\ trace = <<"safety_guard", "policy_rag", "risk_assessor",
                 "violation_checker", "sar_drafter", "siem_notifier">>

(* C3: once violation_checker has run, violation_found equals              *)
(* (len(violations) > 0) for the accumulated violations of the state.      *)
C3_ViolationFoundIffNonEmpty ==
    Ran("violation_checker") =>
        (state.violation_found <=> Len(state.violations) > 0)

C3_Witness ==
    /\ Ran("violation_checker")
    /\ state.violation_found
    /\ Len(state.violations) = 1

(* C4: when safety_guard sets is_blocked, blocked_responder is the only    *)
(* node that follows, it is the last node of the run, and siem_notified is *)
(* still false in the final state.                                         *)
C4_BlockedEndsInBlockedResponder ==
    (Ran("safety_guard") /\ state.is_blocked) =>
        /\ ~state.siem_notified
        /\ pc \in {"blocked_responder", "END"}
        /\ Finished => trace = <<"safety_guard", "blocked_responder">>

C4_Witness ==
    /\ Finished
    /\ state.is_blocked
    /\ Last(trace) = "blocked_responder"

(* C5: with risk_score < 0.5 violation_checker is never started and        *)
(* violations is empty in the final state; a request of that kind that     *)
(* safety_guard did not block ends in compliance_responder.                *)
C5_LowRiskSkipsChecker ==
    state.risk_score < 50 =>
        /\ "violation_checker" \notin Range(Started)
        /\ state.violations = <<>>
        /\ pc # "RAISED"
        /\ (Finished /\ ~state.is_blocked) =>
              Last(trace) = "compliance_responder"

C5_Witness ==
    /\ Finished
    /\ Ran("risk_assessor")
    /\ state.risk_score = 49
    /\ Last(trace) = "compliance_responder"

BothRulesRecorded ==
    /\ HasRule(state.violations, "AML-R01")
    /\ HasRule(state.violations, "AML-R02")

\* siem_notified against what the webhook did: true only for a delivered
\* event, false for a failure status or a timeout
NotifiedReflectsDelivery ==
    /\ state.siem_notified => delivery \in {"200", "204"}
    /\ delivery \in {"timeout", "500", "none"} => ~state.siem_notified

IsScenarioB ==
    /\ AmountIsNumeric(request.transaction)
    /\ AmountOf(request.transaction) = Cents(15000, 0)
    /\ Contains(request.message, Smurfing)

\* safety_guard neither blocked the request nor rewrote its message
PassedUnchanged == ~state.is_blocked /\ state.message = request.message

HasCriticalStructuring ==
    \E i \in DOMAIN state.violations :
        /\ state.violations[i].rule_id = "AML-R02"
        /\ state.violations[i].severity = "CRITICAL"

(* C7 as stated, for the requests safety_guard passes unchanged: every     *)
(* finished run of a request whose message contains "structuring" holds a  *)
(* CRITICAL structuring violation, whatever the amount and the risk_score. *)
C7_Original ==
    (Contains(request.message, Structuring) /\ Finished /\ PassedUnchanged) =>
        HasCriticalStructuring

(* C7 amended: whenever violation_checker has run on a message that, as    *)
(* safety_guard passed it on, contains "structuring", the violations hold  *)
(* a CRITICAL AML-R02 record, whatever the amount and the risk_score that  *)
(* led there.                                                              *)
C7_StructuringAtChecker ==
    (Ran("violation_checker") /\ Contains(state.message, Structuring)) =>
        HasCriticalStructuring

C7_Witness ==
    /\ Ran("violation_checker")
    /\ Contains(state.message, Structuring)
    /\ AmountOf(request.transaction) < Cents(10000, 0)
    /\ state.risk_score = 50
    /\ HasCriticalStructuring

(* C8: once violation_checker has run, the violations hold the HIGH        *)
(* AML-R01 record if and only if the amount is >= 10000 (10000 included,   *)
(* 9999.99 and an absent transaction not), whatever the other two rules    *)
(* do.                                                                     *)
C8_CtrRuleIffThreshold ==
    Ran("violation_checker") =>
        /\ HasRule(state.violations, "AML-R01")
              <=> AmountOf(request.transaction) >= Cents(10000, 0)
        /\ \A i \in DOMAIN state.violations :
              state.violations[i].rule_id = "AML-R01" =>
                  /\ state.violations[i].severity = "HIGH"
                  /\ state.violations[i].amount = AmountOf(request.transaction)

C8_Witness ==
    /\ Ran("violation_checker")
    /\ AmountOf(request.transaction) = Cents(10000, 0)
    /\ HasRule(state.violations, "AML-R01")
    /\ HasRule(state.violations, "AML-R02")

(* C9: once violation_checker has run, AML-R03 is recorded if and only if  *)
(* neither AML-R01 nor AML-R02 was recorded and risk_score >= 0.75; its    *)
(* severity is the risk_label of the state; and AML-R01 comes before       *)
(* AML-R02 in the list.                                                    *)
C9_SemanticRuleOnlyWhenNoOther ==
    Ran("violation_checker") =>
        /\ HasRule(state.violations, "AML-R03")
              <=> /\ ~HasRule(state.violations, "AML-R01")
                  /\ ~HasRule(state.violations, "AML-R02")
                  /\ state.risk_score >= 75
        /\ \A i \in DOMAIN state.violations :
              state.violations[i].rule_id = "AML-R03" =>
                  /\ state.violations[i].severity = state.risk_label
                  /\ state.violations[i].risk_score = state.risk_score
        /\ BothRulesRecorded =>
              RuleIndex(state.violations, "AML-R01")
                  < RuleIndex(state.violations, "AML-R02")
        /\ \A i, j \in DOMAIN state.violations :
              state.violations[i].rule_id = state.violations[j].rule_id
                  => i = j

C9_Witness ==
    /\ Ran("violation_checker")
    /\ state.risk_score = 75
    /\ state.violations # <<>>
    /\ state.violations[1].rule_id = "AML-R03"
    /\ state.violations[1].severity = "HIGH"

(* C10: step_log is append-only: the log before the node that returned     *)
(* last is a strict prefix of the log after it, every node that returned   *)
(* has an entry, and the nodes of the entries (after the START entry of    *)
(* run_agent) are the nodes that ran, in the order they ran.               *)
C10_AuditLogAppendOnly ==
    /\ trace # <<>> => IsStrictPrefix(prevLog, state.step_log)
    /\ Len(state.step_log) >= 1 + Len(trace)
    /\ state.step_log[1].tag = "START"
    /\ [i \in 1..(Len(state.step_log) - 1) |->
            NodeOfTag(state.step_log[i + 1].tag)] = trace

C10_Witness ==
    /\ Finished
    /\ Len(trace) = 6
    /\ Len(state.step_log) = 7
    /\ state.step_log[2].tag = "SAFETY_GUARD_ERROR"

(* C11 as stated: in the final state the length of step_log is the number  *)
(* of nodes that ran, and that number is 3, 4 or 6.                        *)
C11_Original ==
    Finished =>
        /\ Len(state.step_log) = Len(trace)
        /\ Len(trace) \in {3, 4, 6}

(* C11 amended: in the final state the length of step_log is the number of *)
(* nodes that ran plus one (the START entry of run_agent), and the number  *)
(* of nodes that ran is 2 (blocked), 4 (low risk), 5 (checked, no          *)
(* violation) or 6 (violation).                                            *)
C11_LogLengthIsStagesPlusStart ==
    Finished =>
        /\ Len(state.step_log) = Len(trace) + 1
        /\ Len(trace) \in {2, 4, 5, 6}
        /\ Len(trace) = 2 <=> state.is_blocked
        /\ Len(trace) = 4 <=> (~state.is_blocked /\ state.risk_score < 50)
        /\ Len(trace) = 6 <=> state.violation_found

C11_Witness ==
    /\ Finished
    /\ Len(trace) = 5
    /\ Len(state.step_log) = 6

(* C12: the graph is acyclic: no node is started twice in a run, and a run *)
(* starts at most 6 nodes before it ends (the next node is a node of the   *)
(* graph until then).                                                      *)
C12_AcyclicAtMostSixStages ==
    /\ Len(Started) <= 6
    /\ \A i, j \in DOMAIN Started : Started[i] = Started[j] => i = j
    /\ pc \in Nodes \cup {"END", "RAISED"}
    /\ Len(Started) = 6 => pc \in {"siem_notifier", "END"}

C12_Witness ==
    /\ Finished
    /\ Len(Started) = 6
    /\ Cardinality(Range(Started)) = 6

(* C13: a malformed transaction record (absent, without amount, amount not *)
(* a number) never makes a node raise: violation_checker takes the amount  *)
(* as 0, so it records no AML-R01, and the run goes on.                    *)
C13_MalformedRecordNeverRaises ==
    /\ raisedIn = "none"
    /\ (Ran("violation_checker") /\ ~AmountIsNumeric(request.transaction))
          => ~HasRule(state.violations, "AML-R01")

ErrorTags == { "SAFETY_GUARD_ERROR", "POLICY_RAG_ERROR", "RISK_ASSESSOR_ERROR",
               "SAR_DRAFTER_ERROR", "SIEM_NOTIFIER_ERROR",
               "COMPLIANCE_RESPONDER_ERROR" }

\* the node of this call took its failure path: the collaborator raised, or
\* answered with something the node could not use
Degraded(call) ==
    \/ call.out.raised
    \/ /\ call.node = "policy_rag"
       /\ \E i \in DOMAIN call.out.chunks :
              "chunk_text" \notin Keys(call.out.chunks[i])
    \/ /\ call.node = "risk_assessor"
       /\ state.risk_reasons = <<"Risk assessment error">>

(* C14: every node whose collaborator call failed has an error-marked      *)
(* entry (tag ending in _ERROR) in step_log, and the number of such        *)
(* entries is the number of degraded node executions.                      *)
C14_FailuresAreErrorMarked ==
    /\ \A i \in DOMAIN calls :
          calls[i].out.raised =>
              \E j \in DOMAIN state.step_log :
                  /\ NodeOfTag(state.step_log[j].tag) = calls[i].node
                  /\ state.step_log[j].tag \in ErrorTags
    /\ Cardinality({j \in DOMAIN state.step_log :
                        state.step_log[j].tag \in ErrorTags})
          = Cardinality({i \in DOMAIN calls : Degraded(calls[i])})

\* the same, leaving siem_notifier out
C14_ExceptNotifier ==
    /\ \A i \in DOMAIN calls :
          (calls[i].out.raised /\ calls[i].node # "siem_notifier") =>
              \E j \in DOMAIN state.step_log :
                  /\ NodeOfTag(state.step_log[j].tag) = calls[i].node
                  /\ state.step_log[j].tag \in ErrorTags
    /\ Cardinality({j \in DOMAIN state.step_log :
                        state.step_log[j].tag \in ErrorTags})
          = Cardinality({i \in DOMAIN calls :
                            /\ Degraded(calls[i])
                            /\ calls[i].node # "siem_notifier"})

(* C15: in every reachable state risk_score lies in [0, 1] (0 .. 100 in    *)
(* hundredths), whatever text complete() returned to risk_assessor, and it *)
(* is 0.0 until risk_assessor has run.                                     *)
C15_RiskScoreInUnitInterval ==
    /\ state.risk_score >= 0
    /\ state.risk_score <= 100
    /\ ~Ran("risk_assessor") => state.risk_score = 0

Severities == {"LOW", "MEDIUM", "HIGH", "CRITICAL"}

(* C16: in every reachable state risk_label is one of LOW, MEDIUM, HIGH,   *)
(* CRITICAL and so is the severity of every record in violations, whatever *)
(* text complete() returned to risk_assessor.                              *)
C16_LabelsAndSeveritiesInEnum ==
    /\ state.risk_label \in Severities
    /\ \A i \in DOMAIN state.violations :
          state.violations[i].severity \in Severities

\* what the risk_assessor call of this run got from gemini.chat_compliance
RiskCall == calls[CHOOSE i \in DOMAIN calls : calls[i].node = "risk_assessor"]

RiskEntry ==
    state.step_log[CHOOSE j \in DOMAIN state.step_log :
                       NodeOfTag(state.step_log[j].tag) = "risk_assessor"]

\* the text is one JSON object with exactly the three keys and a number as
\* risk_score, and nothing else
IsStrictRiskText(raw) ==
    /\ Len(raw) = 1
    /\ raw[1].t = "json"
    /\ raw[1].doc.t = "dict"
    /\ Keys(raw[1].doc) = {"risk_score", "risk_label", "risk_reasons"}
    /\ Get(raw[1].doc, "risk_score", PyNone).t = "num"

IsRiskFallback ==
    /\ state.risk_score = 10
    /\ state.risk_label = "LOW"
    /\ state.risk_reasons = <<"Risk assessment error">>
    /\ RiskEntry.tag = "RISK_ASSESSOR_ERROR"

\* the text, with white space and one enclosing code fence taken off, is a
\* JSON object whose risk_score (0.0 when the key is missing) float() accepts
IsUsableRiskText(raw) ==
    LET body == Cleaned(raw)
    IN  /\ Len(body) = 1
        /\ body[1].t = "json"
        /\ body[1].doc.t = "dict"
        /\ Get(body[1].doc, "risk_score", Num(0)).t \in {"num", "str"}
        /\ Get(body[1].doc, "risk_score", Num(0)).t = "str"
              => Get(body[1].doc, "risk_score", Num(0)).numeric

(* C17 as stated: when complete() fails or its text is not the strict JSON *)
(* object {risk_score, risk_label, risk_reasons}, risk_assessor yields     *)
(* exactly the fallback 0.1 / LOW / one assessment-error reason.           *)
C17_Original ==
    Ran("risk_assessor") =>
        ((RiskCall.out.raised \/ ~IsStrictRiskText(RiskCall.out.raw))
            => IsRiskFallback)

(* C17, amended: risk_assessor yields the fallback 0.1 / LOW / one         *)
(* assessment-error reason and an error-marked log entry exactly when      *)
(* complete() raises, or the text (white space and an enclosing code fence *)
(* removed) is not a JSON object, or its risk_score is not convertible to  *)
(* a float; otherwise it yields the object's fields, a missing key giving  *)
(* 0.0, LOW or the empty list, and an ordinary log entry.                  *)
C17_FallbackIffUnusableReply ==
    Ran("risk_assessor") =>
        IF RiskCall.out.raised THEN IsRiskFallback
        ELSE IF ~IsUsableRiskText(RiskCall.out.raw) THEN IsRiskFallback
        ELSE LET doc == Cleaned(RiskCall.out.raw)[1].doc
             IN  /\ state.risk_score = Get(doc, "risk_score", Num(0)).v
                 /\ state.risk_label = Get(doc, "risk_label", "LOW")
                 /\ state.risk_reasons = Get(doc, "risk_reasons", <<>>)
                 /\ RiskEntry.tag = "RISK_ASSESSOR"

C17_Witness ==
    /\ Finished
    /\ Ran("risk_assessor")
    /\ ~RiskCall.out.raised
    /\ RiskCall.out.raw = <<JsonObject({})>>
    /\ state.risk_score = 0
    /\ state.risk_label = "LOW"
    /\ state.risk_reasons = <<>>

\* what policy_engine.evaluate_prompt did in this run
GuardCall == calls[1]

(* C18: safety_guard fails open only when the policy engine raises: then   *)
(* is_blocked is false, message is the caller's and policy_rag is next;    *)
(* when the engine returns blocked = true the request is blocked, with the *)
(* engine's reason as block_reason, and blocked_responder is next; and a   *)
(* request is blocked only when the engine said so.                        *)
C18_FailOpenOnlyOnEngineError ==
    Ran("safety_guard") =>
        /\ GuardCall.node = "safety_guard"
        /\ GuardCall.out.raised =>
              /\ ~state.is_blocked
              /\ state.block_reason = ""
              /\ state.message = request.message
              /\ Started[2] = "policy_rag"
        /\ (~GuardCall.out.raised /\ GuardCall.out.is_blocked) =>
              /\ state.is_blocked
              /\ state.block_reason = Get(GuardCall.out.metadata, "reason", "")
              /\ Started[2] = "blocked_responder"
        /\ state.is_blocked =>
              (~GuardCall.out.raised /\ GuardCall.out.is_blocked)

C18_Witness ==
    /\ Finished
    /\ GuardCall.out.raised
    /\ ~state.is_blocked
    /\ Ran("policy_rag")
    /\ Len(state.step_log) > 2
    /\ state.step_log[2].tag = "SAFETY_GUARD_ERROR"

IsPrefix(a, b) == Len(a) <= Len(b) /\ SubSeq(b, 1, Len(a)) = a

(* C20: agent_id and transaction always equal what the caller supplied;    *)
(* a step changes message only when it is safety_guard, and changes        *)
(* violations only when it is violation_checker, which only appends: the   *)
(* records already there stay as they are.                                 *)
C20_FrameOfEachNode ==
    /\ [](/\ state.agent_id = request.agent_id
          /\ state.transaction = request.transaction)
    /\ [][/\ state'.message # state.message => pc = "safety_guard"
          /\ state'.violations # state.violations =>
                /\ pc = "violation_checker"
                /\ IsPrefix(state.violations, state'.violations)]_vars

C20_Witness ==
    /\ Finished
    /\ state.message # request.message
    /\ Len(state.violations) = 1
    /\ Ran("sar_drafter")
    /\ state.agent_id = request.agent_id
    /\ state.transaction = request.transaction

-----------------------------------------------------------------------------
(* Two run_agent calls in flight at once.  Each call builds its own        *)
(* initial_state dict and hands it to the one compiled graph; the event    *)
(* loop interleaves the nodes of the two invocations in any order.         *)

RunIds == {1, 2}

AgentOf(r) == IF r = 1 THEN "sentinel-chat" ELSE "sar-pipeline"

ConcurrentRequests(r) ==
    [ message     : {MsgStructuring, MsgHello},
      agent_id    : {AgentOf(r)},
      transaction : {NoTransaction,
                     Dict({Item("amount", Num(Cents(15000, 0)))})} ]

\* a node without collaborator
NoOutcome == [raised |-> FALSE]

\* what the collaborator of a node may answer
CollaboratorOutcomes(node, st) ==
    CASE node = "safety_guard" ->
            { [raised |-> TRUE],
              PolicyResult(FALSE, MsgRedacted,
                           Dict({Item("reason", "PII redacted")})),
              PolicyResult(TRUE, st.message,
                           Dict({Item("reason", "Policy violation")})) }
      [] node = "policy_rag" ->
            { [raised |-> TRUE],
              [raised |-> FALSE, chunks |-> <<Chunk("p1", "BSA")>>] }
      [] node = "risk_assessor" ->
            { [raised |-> TRUE],
              [raised |-> FALSE, raw |-> <<RiskObject(Num(90), "HIGH")>>],
              [raised |-> FALSE, raw |-> <<RiskObject(Num(49), "LOW")>>] }
      [] node = "sar_drafter" ->
            { [raised |-> TRUE, text |-> EmptyText],
              [raised |-> FALSE, text |-> [id |-> "narrative-long", len |-> 450]] }
      [] node = "siem_notifier" ->
            { [raised |-> TRUE, exc |-> "timeout", status |-> 0],
              [raised |-> FALSE, exc |-> "", status |-> 200] }
      [] node = "compliance_responder" -> TextOutcomes(Answers)
      [] OTHER -> {NoOutcome}

\* the node function the graph calls for `node`
NodeResult(node, st, out) ==
    CASE node = "safety_guard"         -> safety_guard_node(st, out)
      [] node = "policy_rag"           -> policy_rag_node(st, out)
      [] node = "risk_assessor"        -> risk_assessor_node(st, out)
      [] node = "violation_checker"    -> violation_checker_node(st)
      [] node = "sar_drafter"          -> sar_drafter_node(st, out)
      [] node = "siem_notifier"        -> siem_notifier_node(st, out)
      [] node = "compliance_responder" -> compliance_responder_node(st, out)
      [] node = "blocked_responder"    -> blocked_responder_node(st)

\* run_agent: a fresh initial_state for this call
NewRun(req) ==
    [ request |-> req,
      state   |-> InitialState(req.message, req.agent_id, req.transaction),
      pc      |-> EntryNode,
      calls   |-> <<>> ]

\* one node of one invocation
AfterNode(run, out) ==
    LET res == NodeResult(run.pc, run.state, out)
    IN  IF res.raised
        THEN [run EXCEPT !.pc = "RAISED",
                         !.calls = Append(@, Call(run.pc, out))]
        ELSE LET merged == Merge(run.state, res.update)
             IN  [run EXCEPT !.state = merged,
                             !.pc = NextNode(run.pc, merged),
                             !.calls = Append(@, Call(run.pc, out))]

\* mutant: step_log is one list object that all invocations append to
Invoke_SharedLog(rs, r, out) ==
    LET after == AfterNode(rs[r], out)
    IN  [q \in DOMAIN rs |->
            IF q = r THEN after
            ELSE [rs[q] EXCEPT !.state.step_log = after.state.step_log]]

\* lexinel_agent.ainvoke(initial_state) of call r advances by one node: it
\* reads and writes the state of that invocation only
Invoke(rs, r, out) == [rs EXCEPT ![r] = AfterNode(rs[r], out)]

InitTwo ==
    /\ \E a \in ConcurrentRequests(1), b \in ConcurrentRequests(2) :
          runs = <<NewRun(a), NewRun(b)>>
    /\ request = [message |-> MsgHello, agent_id |-> "sentinel-chat",
                  transaction |-> NoTransaction]
    /\ state = InitialState(request.message, request.agent_id,
                            request.transaction)
    /\ pc = "END"
    /\ trace = <<>>
    /\ prevLog = <<>>
    /\ delivery = "none"
    /\ raisedIn = "none"
    /\ calls = <<>>
    /\ cancelRequested = FALSE
    /\ scan = <<>>

RunNode(r) ==
    /\ runs[r].pc \in Nodes
    /\ \E out \in CollaboratorOutcomes(runs[r].pc, runs[r].state) :
          runs' = Invoke(runs, r, out)
    /\ UNCHANGED <<request, state, pc, trace, prevLog, delivery, raisedIn,
                   calls, cancelRequested, scan>>

NextTwo ==
    \/ RunNode(1)
    \/ RunNode(2)

SpecTwo == InitTwo /\ [][NextTwo]_vars

\* the same request run alone: the nodes one after the other, each getting
\* the collaborator answer of cs in turn
RECURSIVE RunAlone(_, _, _)
RunAlone(st, node, cs) ==
    IF node \notin Nodes \/ cs = <<>>
    THEN [state |-> st, pc |-> node]
    ELSE LET res == NodeResult(node, st, Head(cs).out)
         IN  IF res.raised
             THEN [state |-> st, pc |-> "RAISED"]
             ELSE LET merged == Merge(st, res.update)
                  IN  RunAlone(merged, NextNode(node, merged), Tail(cs))

StartEntries(log) == {j \in DOMAIN log : log[j].tag = "START"}

NodeOfAnswer(kind) ==
    CASE kind = "blocked" -> "blocked_responder"
      [] kind \in {"llm", "unable"} -> "compliance_responder"
      [] kind \in {"sar_preview", "sar_failed"} -> "sar_drafter"
      [] OTHER -> "none"

CallRaised(node) ==
    \E i \in DOMAIN calls : calls[i].node = node /\ calls[i].out.raised

(* C21: on every path and for every combination of collaborator failures  *)
(* the final state has an answer that a node of the path built (not the    *)
(* empty default of run_agent); when sar_drafter or compliance_responder   *)
(* took its except branch the answer is that node's fixed text, and the    *)
(* answer never holds the text of an exception.                            *)
C21_AnswerAlwaysSetNeverRawError ==
    Finished =>
        /\ state.answer # Answer("", EmptyText)
        /\ NodeOfAnswer(state.answer.kind) \in Range(trace)
        /\ CallRaised("sar_drafter") =>
              state.answer = Answer("sar_failed", EmptyText)
        /\ CallRaised("compliance_responder") =>
              state.answer = Answer("unable", EmptyText)
        /\ state.answer.text.id # "e"

C21_Witness ==
    /\ Finished
    /\ CallRaised("safety_guard")
    /\ CallRaised("policy_rag")
    /\ CallRaised("risk_assessor")
    /\ CallRaised("compliance_responder")
    /\ state.answer = Answer("unable", EmptyText)

\* the values of the channels the three routers read
RouterStates ==
    [ is_blocked : BOOLEAN, risk_score : {0, 49, 50, 100},
      violation_found : BOOLEAN ]

\* every name that can follow `node` in the graph
Successors(node) == {NextNode(node, st) : st \in RouterStates}

RECURSIVE ReachableFrom(_)
ReachableFrom(S) ==
    LET T == S \cup UNION {Successors(n) : n \in S \cap Nodes}
    IN  IF T = S THEN S ELSE ReachableFrom(T)

(* C25: in the graph of build_lexinel_graph every name a router returns is *)
(* a registered node, each of the 8 registered nodes is reachable from     *)
(* START, and from every node there is a path to END; a run is never at a  *)
(* name outside the graph.                                                 *)
C25_GraphWellFormed ==
    /\ pc \in Nodes \cup {"END", "RAISED"}
    \* the graph is the same in every state: it is examined when a run starts
    /\ trace = <<>> =>
          /\ Cardinality(Nodes) = 8
          /\ \A n \in Nodes : Successors(n) \subseteq Nodes \cup {"END"}
          /\ Nodes \subseteq ReachableFrom({EntryNode})
          /\ \A n \in Nodes : "END" \in ReachableFrom({n})

C25_Witness ==
    /\ Finished
    /\ trace = <<"safety_guard", "policy_rag", "risk_assessor",
                 "violation_checker", "compliance_responder">>

Called(node) == \E i \in DOMAIN calls : calls[i].node = node

\* a, b, c occur in seq in this order
InOrder(seq, a, b, c) ==
    \E i, j, k \in DOMAIN seq :
        i < j /\ j < k /\ seq[i] = a /\ seq[j] = b /\ seq[k] = c

(* C27: the webhook is called, and siem_notified can be true, only after   *)
(* violation_checker returned violation_found = true and sar_drafter ran,  *)
(* in this order; siem_notified implies violation_found and a non-empty    *)
(* violations list.                                                        *)
C27_NotifyOnlyAfterViolationAndReport ==
    /\ Called("siem_notifier") =>
          /\ InOrder(trace, "violation_checker", "sar_drafter", "siem_notifier")
          /\ state.violation_found
          /\ Len(state.violations) > 0
    /\ state.siem_notified =>
          /\ Called("siem_notifier")
          /\ state.violation_found
          /\ Len(state.violations) > 0

C27_Witness ==
    /\ Finished
    /\ state.siem_notified
    /\ delivery = "200"
    /\ state.violations # <<>>

(* C28: for a request that safety_guard blocked, no collaborator other     *)
(* than the policy engine is ever called, and policy_context, risk_score,  *)
(* risk_label, violations and sar_narrative keep the defaults of           *)
(* run_agent up to and in the final state.                                 *)
C28_BlockedRequestTouchesNothing ==
    state.is_blocked =>
        /\ \A i \in DOMAIN calls : calls[i].node = "safety_guard"
        /\ Range(trace) \subseteq {"safety_guard", "blocked_responder"}
        /\ state.policy_context = <<>>
        /\ state.risk_score = 0
        /\ state.risk_label = "LOW"
        /\ state.violations = <<>>
        /\ state.sar_narrative = EmptyText

C28_Witness ==
    /\ Finished
    /\ state.is_blocked
    /\ Len(calls) = 1
    /\ state.answer.kind = "blocked"
    /\ AmountIsNumeric(request.transaction)
    /\ AmountOf(request.transaction) >= Cents(CTR_THRESHOLD, 0)

\* risk_assessor took its except branch
RiskDegraded ==
    /\ Ran("risk_assessor")
    /\ RiskEntry.tag = "RISK_ASSESSOR_ERROR"

(* C29: whenever risk_assessor falls back (risk_score 0.1) the request     *)
(* goes to compliance_responder: violation_checker, sar_drafter and        *)
(* siem_notifier never run and violations stays empty, also when the       *)
(* amount is at least 10000 or the message has a structuring keyword.      *)
C29_FallbackSkipsRuleCheck ==
    RiskDegraded =>
        /\ state.risk_score = 10
        /\ Started[4] = "compliance_responder"
        /\ Range(Started) \cap
              {"violation_checker", "sar_drafter", "siem_notifier"} = {}
        /\ state.violations = <<>>
        /\ ~state.violation_found
        /\ pc # "RAISED"

C29_Witness ==
    /\ Finished
    /\ RiskDegraded
    /\ AmountIsNumeric(request.transaction)
    /\ AmountOf(request.transaction) >= Cents(CTR_THRESHOLD, 0)
    /\ StructuringRule(request.message)
    /\ state.message = request.message
    /\ state.violations = <<>>

-----------------------------------------------------------------------------
(* Cancellation.  The caller cancels the task that awaits run_agent; the   *)
(* event loop throws CancelledError into the await the running node is     *)
(* suspended at.  CancelledError is a BaseException, so a handler for      *)
(* Exception does not catch it and it leaves the node, ainvoke and         *)
(* run_agent.  Nodes without an await cannot be interrupted.               *)

AwaitingNodes ==
    { "safety_guard", "policy_rag", "risk_assessor", "sar_drafter",
      "siem_notifier", "compliance_responder" }

\* mutant: a bare except, which also catches the cancellation
Catches_Everything(exc) == TRUE

\* except Exception as e
Catches(exc) == exc = "Exception"

\* run_agent returns final_state only after ainvoke completed
ReturnedState == IF pc = "END" THEN <<state>> ELSE <<>>

Cancel ==
    /\ pc \in AwaitingNodes
    /\ ~cancelRequested
    /\ cancelRequested' = TRUE
    /\ IF Catches("CancelledError")
       THEN \* the node treats the cancellation as a collaborator failure,
            \* returns its fallback, and the graph goes on
            LET out == CHOOSE o \in CollaboratorOutcomes(pc, state) : o.raised
                res == NodeResult(pc, state, out)
                merged == Merge(state, res.update)
            IN  /\ state' = merged
                /\ pc' = NextNode(pc, merged)
                /\ trace' = Append(trace, pc)
                /\ prevLog' = state.step_log
                /\ calls' = Append(calls, Call(pc, out))
                /\ UNCHANGED <<raisedIn, delivery>>
       ELSE /\ pc' = "CANCELLED"
            /\ raisedIn' = pc
            \* the POST in flight is abandoned, or had already arrived
            /\ delivery' \in IF pc = "siem_notifier"
                             THEN {"abandoned", ToString(HTTP_OK)}
                             ELSE {delivery}
            /\ UNCHANGED <<state, trace, prevLog, calls>>
    /\ UNCHANGED <<request, runs, scan>>

NextCancel ==
    \/ Next
    \/ Cancel

SpecCancel == Init /\ [][NextCancel]_vars

(* C26: once the caller has cancelled a request no further node of it is   *)
(* started: the run stays at the node that was interrupted, its state and  *)
(* step_log no longer change, and run_agent returns no state, partial or   *)
(* final, for it.                                                          *)
C26_CancelStopsTheRun ==
    /\ [](cancelRequested =>
            /\ pc = "CANCELLED"
            /\ raisedIn \in AwaitingNodes
            /\ raisedIn \notin Range(trace)
            /\ ReturnedState = <<>>)
    /\ [][cancelRequested => UNCHANGED <<state, trace, pc>>]_vars

C26_Witness ==
    /\ cancelRequested
    /\ pc = "CANCELLED"
    /\ raisedIn = "sar_drafter"
    /\ Len(state.violations) = 2
    /\ state.sar_narrative = EmptyText

-----------------------------------------------------------------------------
(* sentinel_service.py: SentinelScanner.evaluate_rule.  The rule logic is  *)
(* a str, a tuple of characters here; a transaction is a dict.             *)

UpperChar(c) ==
    IF \E i \in DOMAIN LowerAlpha : LowerAlpha[i] = c
    THEN UpperAlpha[CHOOSE i \in DOMAIN LowerAlpha : LowerAlpha[i] = c]
    ELSE c

\* str.upper()
Upper(s) == [i \in 1..Len(s) |-> UpperChar(s[i])]

DigitChars == <<"0","1","2","3","4","5","6","7","8","9">>

IsDigit(c) == \E i \in DOMAIN DigitChars : DigitChars[i] = c

\* \s of the re module (blank is the only white space in the rule texts)
IsSpace(c) == c = " "

\* \w of the re module
IsWordChar(c) ==
    \/ IsDigit(c)
    \/ c = "_"
    \/ \E i \in DOMAIN LowerAlpha : LowerAlpha[i] = c \/ UpperAlpha[i] = c

DigitValue(c) == (CHOOSE i \in DOMAIN DigitChars : DigitChars[i] = c) - 1

\* float() of a run of digits
RECURSIVE NumberOf(_)
NumberOf(digits) ==
    IF digits = <<>> THEN 0
    ELSE 10 * NumberOf(SubSeq(digits, 1, Len(digits) - 1))
            + DigitValue(digits[Len(digits)])

\* the first index from i on whose character does not satisfy the class
RECURSIVE SkipSpace(_, _)
SkipSpace(s, i) ==
    IF i <= Len(s) /\ IsSpace(s[i]) THEN SkipSpace(s, i + 1) ELSE i

RECURSIVE SkipDigits(_, _)
SkipDigits(s, i) ==
    IF i <= Len(s) /\ IsDigit(s[i]) THEN SkipDigits(s, i + 1) ELSE i

RECURSIVE SkipWord(_, _)
SkipWord(s, i) ==
    IF i <= Len(s) /\ IsWordChar(s[i]) THEN SkipWord(s, i + 1) ELSE i

NoMatch == [found |-> FALSE, group |-> <<>>]

\* re.search(anchor + r"\s*(\d+)", s): the leftmost place where the anchor,
\* any white space and at least one digit follow one another
SearchNumber(s, anchor) ==
    LET starts == {p \in 1..Len(s) :
                     /\ p + Len(anchor) - 1 <= Len(s)
                     /\ SubSeq(s, p, p + Len(anchor) - 1) = anchor
                     /\ LET q == SkipSpace(s, p + Len(anchor))
                        IN  SkipDigits(s, q) > q}
    IN  IF starts = {} THEN NoMatch
        ELSE LET p == CHOOSE x \in starts : \A y \in starts : x <= y
                 q == SkipSpace(s, p + Len(anchor))
             IN  [found |-> TRUE, group |-> SubSeq(s, q, SkipDigits(s, q) - 1)]

\* re.search(anchor + r"\s*(\w+)", s)
SearchWord(s, anchor) ==
    LET starts == {p \in 1..Len(s) :
                     /\ p + Len(anchor) - 1 <= Len(s)
                     /\ SubSeq(s, p, p + Len(anchor) - 1) = anchor
                     /\ LET q == SkipSpace(s, p + Len(anchor))
                        IN  SkipWord(s, q) > q}
    IN  IF starts = {} THEN NoMatch
        ELSE LET p == CHOOSE x \in starts : \A y \in starts : x <= y
                 q == SkipSpace(s, p + Len(anchor))
             IN  [found |-> TRUE, group |-> SubSeq(s, q, SkipWord(s, q) - 1)]

\* str.split(): the maximal runs of characters that are not white space
RECURSIVE Split(_)
Split(s) ==
    IF s = <<>> THEN <<>>
    ELSE IF IsSpace(s[1]) THEN Split(Tail(s))
    ELSE LET end == CHOOSE e \in 1..Len(s) :
                       /\ \A i \in 1..e : ~IsSpace(s[i])
                       /\ e = Len(s) \/ IsSpace(s[e + 1])
         IN  <<SubSeq(s, 1, end)>> \o Split(SubSeq(s, end + 1, Len(s)))

AnchorAmountGt == <<"a","m","o","u","n","t"," ",">">>
AnchorAmountLt == <<"a","m","o","u","n","t"," ","<">>
AnchorCountryEq == <<"c","o","u","n","t","r","y"," ","=">>
AnchorCountryIs == <<"c","o","u","n","t","r","y"," ","i","s">>
AnchorCrossDash == <<"c","r","o","s","s","-","b","o","r","d","e","r">>
AnchorCrossUnderscore == <<"c","r","o","s","s","_","b","o","r","d","e","r">>
AnchorTypeEq == <<"t","y","p","e"," ","=">>
WordTrue == <<"t","r","u","e">>
WordFalse == <<"f","a","l","s","e">>

\* ["US", "CN", "RU", "UK", "KY"]
CountryCodes == {<<"U","S">>, <<"C","N">>, <<"R","U">>, <<"U","K">>, <<"K","Y">>}

\* a value of the transaction dict
Str(chars) == [t |-> "text", chars |-> chars]
Bool(b) == [t |-> "bool", b |-> b]

\* what a step of the try body did
Pass == "pass"
ReturnFalse == "false"
Raise == "raise"

\* mutant: the bound itself passes both amount clauses
AmountStep_BoundPasses(transaction, logic, anchor, greater) ==
    IF ~Contains(logic, anchor) THEN Pass
    ELSE LET match == SearchNumber(logic, anchor)
         IN  IF ~match.found THEN Pass
             ELSE IF transaction.t # "dict" \/ "amount" \notin Keys(transaction)
             THEN Raise
             ELSE LET amount == Get(transaction, "amount", PyNone)
                      bound  == Cents(NumberOf(match.group), 0)
                  IN  IF amount.t # "num" THEN Raise
                      ELSE IF greater /\ amount.v < bound THEN ReturnFalse
                      ELSE IF ~greater /\ amount.v > bound THEN ReturnFalse
                      ELSE Pass

\* match and transaction['amount'] <= float(match.group(1)): return False
\* (greater = TRUE: the "amount >" clause; FALSE: the "amount <" clause)
AmountStep(transaction, logic, anchor, greater) ==
    IF ~Contains(logic, anchor) THEN Pass
    ELSE LET match == SearchNumber(logic, anchor)
         IN  IF ~match.found THEN Pass
             ELSE IF transaction.t # "dict" \/ "amount" \notin Keys(transaction)
             THEN Raise
             ELSE LET amount == Get(transaction, "amount", PyNone)
                      bound  == Cents(NumberOf(match.group), 0)
                  IN  IF amount.t # "num" THEN Raise
                      ELSE IF greater /\ amount.v <= bound THEN ReturnFalse
                      ELSE IF ~greater /\ amount.v >= bound THEN ReturnFalse
                      ELSE Pass

\* the loop over logic.split(): the first word of two characters decides
\* whether transaction['country'] is read at all
RECURSIVE CountryLoop(_, _)
CountryLoop(transaction, words) ==
    IF words = <<>> THEN Pass
    ELSE IF Len(Head(words)) # 2 THEN CountryLoop(transaction, Tail(words))
    ELSE IF transaction.t # "dict" \/ "country" \notin Keys(transaction)
    THEN Raise
    ELSE LET country == Get(transaction, "country", PyNone)
             differs == country.t # "text" \/ Upper(Head(words)) # country.chars
         IN  IF differs /\ Upper(Head(words)) \in CountryCodes
             THEN ReturnFalse
             ELSE CountryLoop(transaction, Tail(words))

CountryStep(transaction, logic) ==
    IF Contains(logic, AnchorCountryEq) \/ Contains(logic, AnchorCountryIs)
    THEN CountryLoop(transaction, Split(logic))
    ELSE Pass

\* bool(transaction.get('is_cross_border', False))
IsCrossBorder(transaction) ==
    LET x == Get(transaction, "is_cross_border", Bool(FALSE))
    IN  CASE x.t = "bool" -> x.b
          [] x.t = "None" -> FALSE
          [] OTHER -> TRUE

CrossBorderStep(transaction, logic) ==
    IF Contains(logic, AnchorCrossDash) \/ Contains(logic, AnchorCrossUnderscore)
    THEN IF transaction.t # "dict"
         THEN IF Contains(logic, WordTrue) \/ Contains(logic, WordFalse)
              THEN Raise ELSE Pass
         ELSE IF Contains(logic, WordTrue) /\ ~IsCrossBorder(transaction)
         THEN ReturnFalse
         ELSE IF Contains(logic, WordFalse) /\ IsCrossBorder(transaction)
         THEN ReturnFalse
         ELSE Pass
    ELSE Pass

TypeStep(transaction, logic) ==
    IF ~Contains(logic, AnchorTypeEq) THEN Pass
    ELSE LET match == SearchWord(logic, AnchorTypeEq)
         IN  IF ~match.found THEN Pass
             ELSE IF transaction.t # "dict" \/ "type" \notin Keys(transaction)
             THEN Raise
             ELSE LET type == Get(transaction, "type", PyNone)
                  IN  IF type.t # "text" THEN Raise
                      ELSE IF Lower(type.chars) # Lower(match.group)
                      THEN ReturnFalse
                      ELSE Pass

\* the body of the try: "True", "False", or "Raised" when an exception
\* reaches the handler
RuleBody(transaction, rule_logic) ==
    LET logic == Lower(rule_logic)
        steps == << AmountStep(transaction, logic, AnchorAmountGt, TRUE),
                    AmountStep(transaction, logic, AnchorAmountLt, FALSE),
                    CountryStep(transaction, logic),
                    CrossBorderStep(transaction, logic),
                    TypeStep(transaction, logic) >>
        stops == {i \in DOMAIN steps : steps[i] # Pass}
    IN  IF stops = {} THEN "True"
        ELSE LET first == CHOOSE i \in stops : \A j \in stops : i <= j
             IN  IF steps[first] = Raise THEN "Raised" ELSE "False"

\* mutant: no handler around the body
evaluate_rule_NoHandler(transaction, rule_logic) ==
    RuleBody(transaction, rule_logic)

\* except Exception: return False
evaluate_rule(transaction, rule_logic) ==
    LET body == RuleBody(transaction, rule_logic)
    IN  IF body = "Raised" THEN "False" ELSE body

-----------------------------------------------------------------------------
(* Rule expressions: a conjunction of clauses.  A clause carries the text  *)
(* a rule author writes and what the clause means: k is its kind ("raw": a *)
(* keyword anchor without a parsable operand), n the bound of an amount    *)
(* clause, code the country code, flag the cross-border keyword, x the     *)
(* transaction type.                                                       *)

Clause(k, text, n, code, flag, x) ==
    [k |-> k, text |-> text, n |-> n, code |-> code, flag |-> flag, x |-> x]

ClauseGt10000 ==
    Clause("gt", <<"a","m","o","u","n","t"," ",">"," ","1","0","0","0","0">>,
           10000, <<>>, FALSE, <<>>)

ClauseGt500 ==
    Clause("gt", <<"A","m","o","u","n","t"," ",">","5","0","0">>,
           500, <<>>, FALSE, <<>>)

ClauseLt10000 ==
    Clause("lt", <<"a","m","o","u","n","t"," ","<"," ","1","0","0","0","0">>,
           10000, <<>>, FALSE, <<>>)

ClauseCountryUS ==
    Clause("country", <<"c","o","u","n","t","r","y"," ","="," ","U","S">>,
           0, <<"U","S">>, FALSE, <<>>)

ClauseCountryIsCN ==
    Clause("country", <<"c","o","u","n","t","r","y"," ","i","s"," ","c","n">>,
           0, <<"C","N">>, FALSE, <<>>)

ClauseCountryDE ==
    Clause("country", <<"c","o","u","n","t","r","y"," ","="," ","D","E">>,
           0, <<"D","E">>, FALSE, <<>>)

ClauseCrossTrue ==
    Clause("cross", <<"c","r","o","s","s","_","b","o","r","d","e","r"," ","="," ","t","r","u","e">>,
           0, <<>>, TRUE, <<>>)

ClauseCrossFalse ==
    Clause("cross", <<"c","r","o","s","s","-","b","o","r","d","e","r"," ","="," ","f","a","l","s","e">>,
           0, <<>>, FALSE, <<>>)

ClauseTypeWire ==
    Clause("type", <<"t","y","p","e"," ","="," ","W","I","R","E">>,
           0, <<>>, FALSE, <<"w","i","r","e">>)

ClauseGe10000 ==
    Clause("raw", <<"a","m","o","u","n","t"," ",">","="," ","1","0","0","0","0">>,
           0, <<>>, FALSE, <<>>)

ClauseGtWords ==
    Clause("raw", <<"a","m","o","u","n","t"," ",">"," ","t","e","n"," ","t","h","o","u","s","a","n","d">>,
           0, <<>>, FALSE, <<>>)

ClauseLe500 ==
    Clause("raw", <<"a","m","o","u","n","t"," ","<","="," ","5","0","0">>,
           0, <<>>, FALSE, <<>>)

ClauseTypeNothing ==
    Clause("raw", <<"t","y","p","e"," ","="," ","?">>,
           0, <<>>, FALSE, <<>>)

Conjunction == <<" ","a","n","d"," ">>

\* the rule logic as the author writes it
RECURSIVE Render(_)
Render(clauses) ==
    IF clauses = <<>> THEN <<>>
    ELSE IF Len(clauses) = 1 THEN clauses[1].text
    ELSE clauses[1].text \o Conjunction \o Render(Tail(clauses))

WellFormedExpressions ==
    { <<>>,
      <<ClauseGt10000>>, <<ClauseGt500>>, <<ClauseLt10000>>,
      <<ClauseCountryUS>>, <<ClauseCountryIsCN>>, <<ClauseCountryDE>>,
      <<ClauseCrossTrue>>, <<ClauseCrossFalse>>, <<ClauseTypeWire>>,
      <<ClauseGt10000, ClauseCountryUS>>,
      <<ClauseGt10000, ClauseCrossTrue, ClauseTypeWire>>,
      <<ClauseLt10000, ClauseCrossFalse>>,
      <<ClauseGt500, ClauseLt10000>>,
      <<ClauseCountryUS, ClauseTypeWire>> }

MalformedExpressions ==
    { <<ClauseGe10000>>, <<ClauseGtWords>>, <<ClauseLe500>>,
      <<ClauseTypeNothing>>,
      <<ClauseGe10000, ClauseCountryUS>> }

Expressions == WellFormedExpressions \cup MalformedExpressions

\* a record of the transaction stream
Txn(amount, country, cross, type) ==
    Dict({ Item("amount", amount), Item("country", Str(country)),
           Item("is_cross_border", Bool(cross)), Item("type", type) })

Without(transaction, key) ==
    Dict({i \in transaction.items : i.key # key})

With(transaction, key, val) ==
    Dict(Without(transaction, key).items \cup {Item(key, val)})

TxnWireUS == Txn(Num(Cents(15000, 0)), <<"U","S">>, TRUE, Str(<<"W","I","R","E">>))
TxnAtBound == Txn(Num(Cents(10000, 0)), <<"C","N">>, FALSE, Str(<<"w","i","r","e">>))
TxnSmall == Txn(Num(Cents(500, 0)), <<"U","S">>, FALSE, Str(<<"A","C","H">>))
TxnJustOver == Txn(Num(Cents(10000, 1)), <<"R","U">>, TRUE, Str(<<"W","i","r","e">>))

FullTransactions == {TxnWireUS, TxnAtBound, TxnSmall, TxnJustOver}

EvalTransactions ==
    FullTransactions \cup
    { Without(TxnWireUS, "amount"),
      Without(TxnWireUS, "country"),
      Without(TxnWireUS, "type"),
      Without(TxnWireUS, "is_cross_border"),
      With(TxnWireUS, "amount", BadStr),
      With(TxnWireUS, "amount", PyNone),
      With(TxnWireUS, "type", PyNone),
      NoTransaction }

\* one call of evaluate_rule
InitEval ==
    /\ \E tx \in EvalTransactions, e \in Expressions :
          scan = [ transaction |-> tx, clauses |-> e, rule_logic |-> Render(e),
                   result |-> "pending" ]
    /\ request = [message |-> MsgHello, agent_id |-> "sentinel-chat",
                  transaction |-> NoTransaction]
    /\ state = InitialState(request.message, request.agent_id,
                            request.transaction)
    /\ pc = "END"
    /\ trace = <<>>
    /\ prevLog = <<>>
    /\ delivery = "none"
    /\ raisedIn = "none"
    /\ calls = <<>>
    /\ runs = <<>>
    /\ cancelRequested = FALSE

Evaluate ==
    /\ scan.result = "pending"
    /\ scan' = [scan EXCEPT
                  !.result = evaluate_rule(scan.transaction, scan.rule_logic)]
    /\ UNCHANGED <<request, state, pc, trace, prevLog, delivery, raisedIn,
                   calls, runs, cancelRequested>>

NextEval == Evaluate

SpecEval == InitEval /\ [][NextEval]_vars

Evaluated == scan # <<>> /\ "result" \in DOMAIN scan /\ scan.result # "pending"

WellFormed(clauses) == \A i \in DOMAIN clauses : clauses[i].k # "raw"

\* the transaction field a clause reads
FieldOf(k) ==
    CASE k \in {"gt", "lt"} -> "amount"
      [] k = "country" -> "country"
      [] k = "cross" -> "is_cross_border"
      [] k = "type" -> "type"
      [] OTHER -> "none"

\* some clause of one of these kinds reads a field the record lacks
MissesField(transaction, clauses, kinds) ==
    \E i \in DOMAIN clauses :
        /\ clauses[i].k \in kinds
        /\ FieldOf(clauses[i].k) \notin Keys(transaction)

(* C22 as stated: evaluate_rule never raises, and it returns false         *)
(* whenever a clause of the expression reads a field that the transaction  *)
(* lacks, whichever field it is.                                           *)
C22_Original ==
    Evaluated =>
        /\ scan.result \in {"True", "False"}
        /\ (/\ WellFormed(scan.clauses)
            /\ MissesField(scan.transaction, scan.clauses,
                           {"gt", "lt", "country", "cross", "type"}))
              => scan.result = "False"

(* C22, amended: evaluate_rule returns a boolean and never raises, for any *)
(* record and any expression; it returns false whenever an amount, country *)
(* or type clause reads a field that the record lacks; a record without    *)
(* is_cross_border is evaluated as one whose is_cross_border is false.     *)
C22_TotalAndFailClosed ==
    Evaluated =>
        /\ scan.result \in {"True", "False"}
        /\ (/\ WellFormed(scan.clauses)
            /\ MissesField(scan.transaction, scan.clauses,
                           {"gt", "lt", "country", "type"}))
              => scan.result = "False"
        /\ (/\ scan.transaction.t = "dict"
            /\ "is_cross_border" \notin Keys(scan.transaction))
              => scan.result =
                    evaluate_rule(With(scan.transaction, "is_cross_border",
                                       Bool(FALSE)),
                                  scan.rule_logic)

C22_Witness ==
    /\ Evaluated
    /\ scan.transaction = Without(TxnWireUS, "country")
    /\ scan.clauses = <<ClauseCountryUS>>
    /\ scan.result = "False"

\* what a well-formed clause asks of a transaction that has every field
ClauseHolds(c, transaction) ==
    LET amount  == Get(transaction, "amount", PyNone).v
        country == Get(transaction, "country", PyNone).chars
        cross   == Get(transaction, "is_cross_border", PyNone).b
        type    == Get(transaction, "type", PyNone).chars
    IN  CASE c.k = "gt" -> amount > Cents(c.n, 0)
          [] c.k = "lt" -> amount < Cents(c.n, 0)
          [] c.k = "country" -> c.code \notin CountryCodes \/ c.code = country
          [] c.k = "cross" -> c.flag = cross
          [] c.k = "type" -> Lower(type) = Lower(c.x)

C24_MalformedClauseNoMatch ==
    (Evaluated /\ ~WellFormed(scan.clauses)) => scan.result = "False"

-----------------------------------------------------------------------------
(* sentinel_service.py: SentinelScanner.scan_stream.  The transactions are *)
(* the records of the data file, the rules the active policies or the two  *)
(* default rules; the pending-violation queue is kept by policy_db.        *)

RISK_PER_DETECTION == 30

MAX_RISK == 100

HIGH_SEVERITY_AMOUNT == 50000

Rule(id, logic) == [id |-> id, logic |-> logic]

\* the fallback rules of scan_stream
DefaultRules ==
    << Rule("R-DFLT-1", ClauseGt10000.text),
       Rule("R-DFLT-2", ClauseCrossTrue.text) >>

\* policy_db.get_all_policies(), the active ones
ActivePolicies ==
    { <<>>,
      << Rule("P-1", ClauseGt10000.text), Rule("P-2", ClauseCrossTrue.text),
         Rule("P-3", ClauseTypeWire.text), Rule("P-4", ClauseGt500.text) >>,
      << Rule("P-5", ClauseLt10000.text) >> }

RulesToUse(active_rules) ==
    IF active_rules = <<>> THEN DefaultRules ELSE active_rules

TxnLarge == Txn(Num(Cents(75000, 0)), <<"U","S">>, TRUE, Str(<<"W","I","R","E">>))

TxnDomestic == Txn(Num(Cents(15000, 0)), <<"U","S">>, FALSE, Str(<<"A","C","H">>))

StreamTransactions ==
    {TxnLarge, TxnDomestic, TxnSmall, Without(TxnLarge, "amount")}

MaxStream == 3

Streams == UNION {[1..n -> StreamTransactions] : n \in 0..MaxStream}

\* the rules that match, in rule order
RECURSIVE Matching(_, _)
Matching(txn, rules) ==
    IF rules = <<>> THEN <<>>
    ELSE (IF evaluate_rule(txn, Head(rules).logic) = "True"
          THEN <<Head(rules)>> ELSE <<>>) \o Matching(txn, Tail(rules))

\* "HIGH" if txn['amount'] > 50000 else "MEDIUM"
Severity(txn) ==
    IF Get(txn, "amount", PyNone).v > Cents(HIGH_SEVERITY_AMOUNT, 0)
    THEN "HIGH" ELSE "MEDIUM"

\* txn['amount'] of the severity and of the evidence summary can be read
\* and compared
AmountReadable(txn) ==
    "amount" \in Keys(txn) /\ Get(txn, "amount", PyNone).t = "num"

Detection(rule, txn) == [rule_id |-> rule.id, severity |-> Severity(txn)]

\* mutant: the score is not capped
ScanRiskScore_Uncapped(detections) == RISK_PER_DETECTION * Len(detections)

\* risk_score += 30 per detection; min(100, risk_score)
ScanRiskScore(detections) ==
    Min(MAX_RISK, RISK_PER_DETECTION * Len(detections))

Verdict(detections) == IF detections # <<>> THEN "FLAGGED" ELSE "COMPLIANT"

\* detections.append(SentinelDetection(...)) for every matching rule
Detections(txn, matching) ==
    [k \in 1..Len(matching) |-> Detection(matching[k], txn)]

BuildResult(i, detections) ==
    [ transaction_id |-> i,
      verdict        |-> Verdict(detections),
      detections     |-> detections,
      risk_score     |-> ScanRiskScore(detections) ]

\* SentinelResult for the transaction at place i of the stream
SentinelResult(i, txn, rules) ==
    BuildResult(i, Detections(txn, Matching(txn, rules)))

\* policy_db.add_hitl_violation
add_hitl_violation(queue, result) == Append(queue, result)

\* if detections: policy_db.add_hitl_violation(...); then yield result
Yield(sc, result) ==
    [sc EXCEPT !.next = @ + 1,
               !.emitted = Append(@, result),
               !.queue = IF result.detections # <<>>
                         THEN add_hitl_violation(@, result)
                         ELSE @]

InitScan ==
    /\ \E txns \in Streams, active \in ActivePolicies :
          scan = [ transactions |-> txns, rules |-> RulesToUse(active),
                   next |-> 1, emitted |-> <<>>, queue |-> <<>>,
                   status |-> "running" ]
    /\ request = [message |-> MsgHello, agent_id |-> "sentinel-chat",
                  transaction |-> NoTransaction]
    /\ state = InitialState(request.message, request.agent_id,
                            request.transaction)
    /\ pc = "END"
    /\ trace = <<>>
    /\ prevLog = <<>>
    /\ delivery = "none"
    /\ raisedIn = "none"
    /\ calls = <<>>
    /\ runs = <<>>
    /\ cancelRequested = FALSE

\* one turn of the loop over the transactions: the result is queued when
\* flagged and then yielded; a record whose amount cannot be read makes the
\* generator raise
ScanNext ==
    /\ scan.status = "running"
    /\ scan.next <= Len(scan.transactions)
    /\ LET txn == scan.transactions[scan.next]
       IN  IF ~AmountReadable(txn)
           THEN scan' = [scan EXCEPT !.status = "raised"]
           ELSE scan' = Yield(scan, SentinelResult(scan.next, txn, scan.rules))
    /\ UNCHANGED <<request, state, pc, trace, prevLog, delivery, raisedIn,
                   calls, runs, cancelRequested>>

\* the loop is exhausted
ScanEnd ==
    /\ scan.status = "running"
    /\ scan.next > Len(scan.transactions)
    /\ scan' = [scan EXCEPT !.status = "done"]
    /\ UNCHANGED <<request, state, pc, trace, prevLog, delivery, raisedIn,
                   calls, runs, cancelRequested>>

NextScan ==
    \/ ScanNext
    \/ ScanEnd

SpecScan == InitScan /\ [][NextScan]_vars

\* the subsequence of results that are flagged
RECURSIVE Flagged(_)
Flagged(results) ==
    IF results = <<>> THEN <<>>
    ELSE (IF Head(results).verdict = "FLAGGED" THEN <<Head(results)>> ELSE <<>>)
            \o Flagged(Tail(results))

====
